---- MODULE Spec2Model ----
(***************************************************************************)
(* Hoopscraper: the resumable, incrementally persisted scraping            *)
(* orchestrator (src/Hoopscraper.py).                                      *)
(*                                                                         *)
(* The model follows FlashscoreMatchScraper.                               *)
(* scrape_league_with_incremental_save step by step: the outer restart     *)
(* loop, session acquisition (get_chrome_driver_with_retry), discovery,    *)
(* the filter against the artifact, the per-item loop with its batch       *)
(* pause, scrape_match_with_error_handling, save_match_incremental and the *)
(* final summary / reorder.  The remote session, the listing and the page  *)
(* extractor are the environment: their outcomes are chosen with \E.       *)
(***************************************************************************)
EXTENDS Integers, Sequences, FiniteSets, TLC

(* ---------------------------------------------------------------- bounds *)
\* Rows of a discovered listing; match ids are 1..MaxDisc.
MaxDisc == 2
\* The configuration is scaled to the short listings: the program reads
\* config.MAX_RECONNECTION_ATTEMPTS (config.py ships 5) as max_global_restarts
\* and as max_attempts, and config.MATCHES_PER_BATCH (config.py ships 250) as
\* batch_size.  The values here keep every branch of the shipped values
\* (more than one restart attempt; a pause boundary inside a listing).
MAX_RECONNECTION_ATTEMPTS == 2
MATCHES_PER_BATCH == 1

(* ----------------------------------------------------- program constants *)
\* get_chrome_driver_with_retry(headless=True, max_attempts=3)
DRIVER_MAX_ATTEMPTS == 3

MatchIds == 1..MaxDisc

\* The start time the match page shows for a match ('date' of its Record).
\* A property of the remote match, not of the run: two matches may share it.
MatchDate(id) == (id + 1) \div 2

\* datetime.now() at extraction ('scraped_at'), the same day for all runs.
Today == 1

\* Key of a value that does not parse as a date.
DatetimeMin == 0

(* -------------------------------------------------------------- Records *)
\* extract_match_data + the id stamp of scrape_match_with_error_handling.
MakeRecord(id) == [match_id |-> id, date |-> MatchDate(id), scraped_at |-> Today]

\* The Python list [r['match_id'] for r in data].
IdsOf(data) == [k \in 1..Len(data) |-> data[k].match_id]

SeqToSet(s) == {s[k] : k \in 1..Len(s)}

\* Number of positions of s holding x.
Count(s, x) == Cardinality({k \in 1..Len(s) : s[k] = x})

NoDuplicates(s) == \A a, b \in 1..Len(s) : s[a] = s[b] => a = b

(* ------------------------------------------------------------- artifact *)
\* The JSON file at output_filepath: absent, a parsed list of Records, text
\* that does not parse (an empty file, a file opened for writing and not
\* yet, or never completely, dumped), or JSON text that is not a list.
Absent == [kind |-> "absent", data |-> <<>>]
Torn == [kind |-> "torn", data |-> <<>>]
NonList == [kind |-> "nonlist", data |-> <<>>]
ListFile(data) == [kind |-> "list", data |-> data]

\* Variant: the ids already in the artifact are never loaded.
load_existing_match_ids_Never(f) == {}

\* Variant: only the first Record of the list is looked at.
load_existing_match_ids_First(f) ==
    IF f.kind = "list" /\ f.data # <<>> THEN {f.data[1].match_id} ELSE {}

\* load_existing_match_ids: the set of match_id of a parseable list; a
\* missing file or one that raises in json.load gives the empty set.
load_existing_match_ids(f) ==
    IF f.kind = "list" THEN SeqToSet(IdsOf(f.data)) ELSE {}

\* _parse_match_datetime: 'date' if it parses, else 'scraped_at', else min.
_parse_match_datetime(m) ==
    IF m.date # DatetimeMin THEN m.date
    ELSE IF m.scraped_at # DatetimeMin THEN m.scraped_at
    ELSE DatetimeMin

\* Insert record r into the key-sorted sequence s behind every element that
\* must stay in front of it (stable).
RECURSIVE InsertSorted(_, _, _)
InsertSorted(s, r, rev) ==
    IF s = <<>> THEN <<r>>
    ELSE LET k == _parse_match_datetime(r)
             h == _parse_match_datetime(Head(s))
             before == IF rev THEN h >= k ELSE h <= k
         IN IF before THEN <<Head(s)>> \o InsertSorted(Tail(s), r, rev)
            ELSE <<r>> \o s

RECURSIVE SortFrom(_, _, _)
SortFrom(acc, rest, rev) ==
    IF rest = <<>> THEN acc
    ELSE SortFrom(InsertSorted(acc, Head(rest), rev), Tail(rest), rev)

\* Variant: the order argument is ignored, the list is always sorted
\* oldest first.
_sort_matches_NoReverse(data, order) == SortFrom(<<>>, data, FALSE)

\* Variant: 'desc' is the ascending sort read backwards.
_sort_matches_Backwards(data, order) ==
    LET up == SortFrom(<<>>, data, FALSE)
    IN IF order = "desc" THEN [k \in 1..Len(up) |-> up[Len(up) + 1 - k]] ELSE up

\* _sort_matches: sorted(data, key=_parse_match_datetime, reverse=rev).
\* Python's sort is stable, also with reverse=True.
_sort_matches(data, order) == SortFrom(<<>>, data, order = "desc")

\* reorder_json_file: rewrites a parseable list sorted; anything else is
\* left alone (returns False).
reorder_json_file(f, order) ==
    IF f.kind = "list" THEN ListFile(_sort_matches(f.data, order)) ELSE f

(* ---------------------------------------------------------------- state *)
VARIABLES
    file,                   \* the artifact at output_filepath
    pc,                     \* position of the orchestrator
    update_mode,            \* parameter update_mode of the current run
    is_interactive,         \* len(sys.argv) == 1
    global_driver_restarts, \* line 1103
    driver,                 \* TRUE while a Chrome session is live
    attempt,                \* attempt counter of get_chrome_driver_with_retry
    bound,                  \* TRUE once matches_with_stage has been assigned
    matches_with_stage,     \* the discovered (and limited) id sequence
    matches_to_process,     \* the filtered sequence of the current session
    i,                      \* enumerate index of the for loop (0-based)
    successful_count,
    failed_count,
    match_info,             \* id of the item in flight (0: none)
    wbuf,                   \* the list an open-for-write artifact is being dumped from
    summary,                \* <<>> or <<the summary logged at lines 1231-1240>>
    report,                 \* <<>> or <<the counts logged at lines 1153-1155>>
    page,                   \* the results page get_match_id_list reads
    config,                 \* the flags of config.py the Item Processor reads
    scraped,                \* match_data of the scrape_match_with_error_handling call in progress
    hist                    \* history of the current run (observation only)

vars == <<file, pc, page, config, scraped,
                   update_mode, is_interactive,
          global_driver_restarts, driver, attempt, bound, matches_with_stage,
          matches_to_process, i, successful_count, failed_count, match_info,
          wbuf, summary, report, hist>>

\* No results page is looked at row by row: the listing it gives is drawn
\* in Discover.
NoPage == <<>>

\* config.py, lines 53-54.
ShippedConfig == [ENABLE_QUARTER_STATS |-> TRUE, REMOVE_TOTAL_MATCH_STATS |-> TRUE]

\* No dict is being built: the Record of an item is made in one step
\* (MakeRecord).
NoData == <<>>

\* Positions at which no run is in progress.
Terminal == {"DONE", "ABORTED", "UNEXPECTED"}

\* History of a run, reset when the run starts.  Nothing in the program
\* reads it: it records what the run has done so far.
NewHist(f) ==
    [store0      |-> f,                          \* artifact when the run started
     attempted   |-> {},                         \* ids handed to the Item Processor
     failed_ids  |-> {},                         \* ids whose last attempt returned False
     fatal       |-> [id \in MatchIds |-> 0],    \* fatal errors raised per id
     last_fatal  |-> 0,                          \* id of the latest fatal item error
     resumed     |-> TRUE,                       \* FALSE from a fatal item error until the next attempt
     saved       |-> 0,                          \* saves that returned True
     any_failed  |-> FALSE,                      \* some attempt returned False
     rewrite_failed |-> FALSE,                   \* a reorder of the artifact raised while writing
     acquired    |-> 0,                          \* sessions yielded by the context manager
     no_session  |-> FALSE,                      \* an acquisition gave up without a session
     released    |-> 0,                          \* sessions quit by the context manager
     live        |-> 0,                          \* Chrome sessions built and not yet quit
     discoveries |-> 0,                          \* calls of get_match_id_list
     loads       |-> 0,                          \* calls of load_existing_match_ids
     existing    |-> {},                         \* existing_match_ids, the set of the latest load
     looped      |-> FALSE,                      \* the for loop of line 1184 has been entered
     before      |-> Absent,                     \* artifact when the save in progress began
     order       |-> "",                         \* order of the latest reorder_json_file call
     returned    |-> "",                         \* "True"/"False": result of that call
     degraded    |-> {},                         \* secondary passes that raised
     delay       |-> "",                         \* latest sleep since the latest attempt began
     handed      |-> <<>>,                       \* positions of the list handed over in this session
     attempts    |-> [id \in MatchIds |-> 0]]    \* attempts per id in the run

\* All sequences over S of length at most n.
RECURSIVE SeqsUpTo(_, _)
SeqsUpTo(S, n) ==
    IF n = 0 THEN {<<>>}
    ELSE LET shorter == SeqsUpTo(S, n - 1)
         IN shorter \cup {Append(s, x) : s \in {t \in shorter : Len(t) = n - 1}, x \in S}

\* What get_match_id_list may return: a listing of at most MaxDisc rows, each
\* with the id the remote source gave its match (one row per match).
Listings == {s \in SeqsUpTo(MatchIds, MaxDisc) : NoDuplicates(s)}

Init ==
    /\ file = Absent
    /\ pc = "INIT"
    /\ update_mode = FALSE
    /\ is_interactive = FALSE
    /\ global_driver_restarts = 0
    /\ driver = FALSE
    /\ attempt = 0
    /\ bound = FALSE
    /\ matches_with_stage = <<>>
    /\ matches_to_process = <<>>
    /\ i = 0
    /\ successful_count = 0
    /\ failed_count = 0
    /\ match_info = 0
    /\ wbuf = <<>>
    /\ summary = <<>>
    /\ report = <<>>
    /\ page = NoPage
    /\ config = ShippedConfig
    /\ scraped = NoData
    /\ hist = NewHist(file)

(* ------------------------------------------------- session and restarts *)
\* Variant: the session is not quit when its scope is left.
ReleaseDriver_Never(h) == h

\* Leaving the `with` block: the context manager's finally quits the driver.
ReleaseDriver(h) ==
    IF driver THEN [h EXCEPT !.released = @ + 1, !.live = @ - 1] ELSE h

\* Variant: the bound on restarts is off by one (<= for <).
OnWebDriverException_OffByOne(h) ==
    /\ global_driver_restarts' = global_driver_restarts + 1
    /\ pc' = IF global_driver_restarts + 1 <= MAX_RECONNECTION_ATTEMPTS
             THEN "acquire" ELSE "ABORTED"
    /\ driver' = FALSE
    /\ attempt' = 0
    /\ match_info' = 0
    /\ hist' = ReleaseDriver(h)

\* Variant: the restart is not counted.
OnWebDriverException_NoCount(h) ==
    /\ global_driver_restarts' = global_driver_restarts
    /\ pc' = "acquire"
    /\ driver' = FALSE
    /\ attempt' = 0
    /\ match_info' = 0
    /\ hist' = ReleaseDriver(h)

\* Variant: a restart counts double.
OnWebDriverException_CountTwice(h) ==
    /\ global_driver_restarts' = global_driver_restarts + 2
    /\ pc' = IF global_driver_restarts + 2 < MAX_RECONNECTION_ATTEMPTS
             THEN "acquire" ELSE "ABORTED"
    /\ driver' = FALSE
    /\ attempt' = 0
    /\ match_info' = 0
    /\ hist' = ReleaseDriver(h)

\* Lines 1276-1286: a WebDriverException reaches the orchestrator.  The
\* session scope has been left; the counter is incremented and the while
\* loop either goes round again or ends.
OnWebDriverException(h) ==
    /\ global_driver_restarts' = global_driver_restarts + 1
    /\ pc' = IF global_driver_restarts + 1 < MAX_RECONNECTION_ATTEMPTS
             THEN "acquire" ELSE "ABORTED"
    /\ driver' = FALSE
    /\ attempt' = 0
    /\ match_info' = 0
    /\ hist' = ReleaseDriver(h)

\* Variant: there is no catch-all handler, the exception leaves
\* scrape_league_with_incremental_save.
OnUnexpectedException_Propagate(h) ==
    /\ pc' = "RAISED"
    /\ driver' = FALSE
    /\ attempt' = 0
    /\ match_info' = 0
    /\ hist' = ReleaseDriver(h)
    /\ UNCHANGED global_driver_restarts

\* Lines 1287-1289: any other exception ends the run.
OnUnexpectedException(h) ==
    /\ pc' = "UNEXPECTED"
    /\ driver' = FALSE
    /\ attempt' = 0
    /\ match_info' = 0
    /\ hist' = ReleaseDriver(h)
    /\ UNCHANGED global_driver_restarts

\* Lines 1072-1104: a run starts.  In update mode the artifact may first be
\* reordered: by main() (--fix-order, lines 1327-1328), by pre_fix_order
\* (line 1098) or, in an interactive run on an existing file, when the user
\* answers 's' (lines 1092-1096).  All rewrite the same 'desc' order.
StartRun(um, inter, fix, ans) ==
    /\ pc \in {"INIT"} \cup Terminal
    /\ inter => ~fix
    /\ update_mode' = um
    /\ is_interactive' = inter
    /\ global_driver_restarts' = 0
    /\ attempt' = 0
    /\ bound' = FALSE
    /\ matches_with_stage' = <<>>
    /\ matches_to_process' = <<>>
    /\ i' = 0
    /\ successful_count' = 0
    /\ failed_count' = 0
    /\ match_info' = 0
    /\ summary' = <<>>
    /\ report' = <<>>
    /\ hist' = NewHist(file)
    /\ LET ask == inter /\ file.kind # "absent"
           fixnow == um /\ (IF inter THEN ask /\ ans = "s" ELSE fix)
       IN IF fixnow /\ file.kind = "list"
          THEN /\ file' = Torn
               /\ wbuf' = _sort_matches(file.data, "desc")
               /\ pc' = "prefix_dump"
          ELSE /\ pc' = "acquire"
               /\ UNCHANGED <<file, wbuf>>
    /\ UNCHANGED <<driver, page, config, scraped>>

\* reorder_json_file, lines 159-165: json.dump into the opened file ends,
\* or raises and leaves what was written so far.
PrefixDump(ok) ==
    /\ pc = "prefix_dump"
    /\ file' = IF ok THEN ListFile(wbuf) ELSE Torn
    /\ wbuf' = <<>>
    /\ pc' = "acquire"
    /\ hist' = [hist EXCEPT !.rewrite_failed = @ \/ ~ok]
    /\ UNCHANGED <<page, config, scraped,
                   update_mode, is_interactive,
                   global_driver_restarts, driver, attempt, bound,
                   matches_with_stage, matches_to_process, i, successful_count,
                   failed_count, match_info, summary, report>>

\* Lines 297-302: the handler of a failed attempt quits the driver that
\* webdriver.Chrome had already built (`live` counts it) and forgets it.
QuitPartial(live) == live - 1

\* Variant: the handler gives up one attempt too late.
Exhausted_Late(att) == att > DRIVER_MAX_ATTEMPTS

\* Line 304: the failed attempt number att was the last one.
Exhausted(att) == att >= DRIVER_MAX_ATTEMPTS

\* Variant: a session that follows a restart goes on with the loop and the
\* ids loaded by the first session.
AfterAcquire_SkipFilter(restarts) == IF restarts = 0 THEN "discover" ELSE "loop"

\* Variant: every new session runs the discovery.
AfterAcquire_Rediscover(restarts) == "discover"

\* Lines 1110 and 1135: the with block runs the discovery in the first
\* session only and goes straight to the filter in a later one.
AfterAcquire(restarts) == IF restarts = 0 THEN "discover" ELSE "filter"

\* get_chrome_driver_with_retry, lines 262-309: one construction attempt.
\*   "ok"      the driver is built and yielded (line 312)
\*   "install" ChromeDriverManager().install() raises (not a WebDriverException)
\*   "chrome"  webdriver.Chrome(...) raises a WebDriverException, no driver
\*   "script"  execute_script raises a WebDriverException; the driver that was
\*             built is quit (lines 297-302)
\* After max_attempts failures the last exception is re-raised (line 306).
DriverAttempt(outcome) ==
    /\ pc = "acquire"
    /\ attempt < DRIVER_MAX_ATTEMPTS
    /\ IF outcome = "ok"
       THEN /\ driver' = TRUE
            /\ attempt' = 0
            /\ pc' = AfterAcquire(global_driver_restarts)
            /\ hist' = [hist EXCEPT !.acquired = @ + 1, !.live = @ + 1]
            /\ UNCHANGED <<global_driver_restarts, match_info>>
       ELSE LET h == IF outcome = "script"
                     THEN [hist EXCEPT !.live = QuitPartial(@ + 1)]
                     ELSE hist
            IN IF Exhausted(attempt + 1)
               THEN IF outcome = "install"
                    THEN OnUnexpectedException([h EXCEPT !.no_session = TRUE])
                    ELSE OnWebDriverException([h EXCEPT !.no_session = TRUE])
               ELSE /\ attempt' = attempt + 1
                    /\ hist' = h
                    /\ UNCHANGED <<pc, driver, global_driver_restarts, match_info>>
    /\ UNCHANGED <<file, page, config, scraped,
                   update_mode, is_interactive, bound,
                   matches_with_stage, matches_to_process, i, successful_count,
                   failed_count, wbuf, summary, report>>

(* ------------------------------------------------------------ discovery *)
\* The test-mode limits a command line may give (--old N / --new N, never
\* both, lines 1313-1316; an update or interactive run passes none).
NoLimit == [old |-> 0, new |-> 0]
Limits ==
    {NoLimit} \cup {[old |-> n, new |-> 0] : n \in 1..MaxDisc}
              \cup {[old |-> 0, new |-> n] : n \in 1..MaxDisc}

\* m[-n:] and m[:n] of Python.
LastN(m, n) == IF n >= Len(m) THEN m ELSE SubSeq(m, Len(m) - n + 1, Len(m))
FirstN(m, n) == IF n >= Len(m) THEN m ELSE SubSeq(m, 1, n)

\* Lines 1118-1125.
ApplyLimit(m, lim) ==
    IF lim.old # 0 THEN LastN(m, lim.old)
    ELSE IF lim.new # 0 THEN FirstN(m, lim.new)
    ELSE m

\* Lines 1110-1125, get_match_id_list returns `listing` (empty when the
\* listing container never shows, lines 407-411).
Discover(listing, lim) ==
    /\ pc = "discover"
    /\ (update_mode \/ is_interactive) => lim = NoLimit
    /\ IF listing = <<>>
       THEN /\ pc' = "DONE"
            /\ driver' = FALSE
            /\ hist' = ReleaseDriver([hist EXCEPT !.discoveries = @ + 1])
            /\ UNCHANGED <<bound, matches_with_stage>>
       ELSE /\ pc' = "filter"
            /\ bound' = TRUE
            /\ matches_with_stage' = ApplyLimit(listing, lim)
            /\ hist' = [hist EXCEPT !.discoveries = @ + 1]
            /\ UNCHANGED driver
    /\ UNCHANGED <<file, page, config, scraped,
                   update_mode, is_interactive,
                   global_driver_restarts, attempt, matches_to_process, i,
                   successful_count, failed_count, match_info, wbuf, summary,
                   report>>

\* Line 1111 raises: a WebDriverException of the session inside
\* get_match_id_list (driver.get, find_elements) is not caught there.
DiscoverFatal ==
    /\ pc = "discover"
    /\ OnWebDriverException([hist EXCEPT !.discoveries = @ + 1])
    /\ UNCHANGED <<file, page, config, scraped,
                   update_mode, is_interactive, bound,
                   matches_with_stage, matches_to_process, i, successful_count,
                   failed_count, wbuf, summary, report>>

(* --------------------------------------------------------------- filter *)
\* Variant: nothing is filtered out.
FilterMatches_NoFilter(mws, existing_match_ids) == mws

\* Lines 1139-1142.
FilterMatches(mws, existing_match_ids) ==
    SelectSeq(mws, LAMBDA id : id \notin existing_match_ids)

\* Lines 1135-1182.  After a restart that followed a failed discovery
\* matches_with_stage was never assigned: line 1140 raises
\* UnboundLocalError, which the handler of line 1287 turns into the end of
\* the run.
Filter ==
    /\ pc = "filter"
    /\ LET existing_match_ids == load_existing_match_ids(file)
           loaded == [hist EXCEPT !.loads = @ + 1,
                                  !.existing = existing_match_ids]
       IN IF ~bound
          THEN /\ OnUnexpectedException(loaded)
               /\ UNCHANGED <<matches_to_process, report, i, successful_count,
                              failed_count>>
          ELSE LET todo == FilterMatches(matches_with_stage, existing_match_ids)
                   first == global_driver_restarts = 0
               IN /\ matches_to_process' = todo
                  /\ report' = IF first
                               THEN <<[found |-> Len(matches_with_stage),
                                       already |-> Cardinality(existing_match_ids),
                                       to_process |-> Len(todo)]>>
                               ELSE report
                  /\ IF first /\ todo = <<>>
                     THEN /\ pc' = "DONE"
                          /\ driver' = FALSE
                          /\ hist' = ReleaseDriver(loaded)
                          /\ UNCHANGED <<i, successful_count, failed_count>>
                     ELSE /\ pc' = "loop"
                          /\ i' = 0
                          /\ successful_count' = 0
                          /\ failed_count' = 0
                          /\ hist' = [loaded EXCEPT !.looped = TRUE, !.handed = <<>>]
                          /\ UNCHANGED driver
                  /\ UNCHANGED <<global_driver_restarts, attempt, match_info>>
    /\ UNCHANGED <<file, page, config, scraped,
                   update_mode, is_interactive, bound,
                   matches_with_stage, wbuf, summary>>

(* ----------------------------------------------------------------- loop *)
\* Variant: the pause is offered in every run.
use_batch_pause_Always == TRUE

\* Lines 1178-1182.  A run with limits is never interactive.
use_batch_pause == is_interactive

\* Lines 1184-1199: the for loop takes the next item, pauses first when a
\* batch is complete, or ends.
LoopNext ==
    /\ pc = "loop"
    /\ IF i >= Len(matches_to_process)
       THEN /\ pc' = "finalize"
            /\ UNCHANGED match_info
       ELSE /\ match_info' = matches_to_process[i + 1]
            /\ pc' = IF use_batch_pause /\ i > 0 /\ i % MATCHES_PER_BATCH = 0
                     THEN "pause" ELSE "item"
    /\ UNCHANGED <<file, page, config, scraped,
                   update_mode, is_interactive,
                   global_driver_restarts, driver, attempt, bound,
                   matches_with_stage, matches_to_process, i, successful_count,
                   failed_count, wbuf, summary, report, hist>>

\* Variant: the answer "3" also empties the artifact.
BatchPause_StopTruncates(choice) ==
    /\ pc = "pause"
    /\ choice = "3"
    /\ pc' = "finalize"
    /\ match_info' = 0
    /\ file' = ListFile(<<>>)
    /\ UNCHANGED <<page, config, scraped,
                   update_mode, is_interactive, global_driver_restarts,
                   driver, attempt, bound, matches_with_stage,
                   matches_to_process, i, successful_count, failed_count, wbuf,
                   summary, report, hist>>

\* interactive_batch_pause, lines 218-234: "1" and "2" continue, "3" stops.
\* "eof": input() raises EOFError (standard input closed); nothing in the
\* loop catches it and it reaches the handler of line 1287.
BatchPause(choice) ==
    /\ pc = "pause"
    /\ CASE choice = "3" ->
              /\ pc' = "finalize"
              /\ match_info' = 0
              /\ UNCHANGED <<driver, attempt, hist>>
         [] choice = "eof" ->
              OnUnexpectedException(hist)
         [] OTHER ->
              /\ pc' = "item"
              /\ UNCHANGED <<match_info, driver, attempt, hist>>
    /\ UNCHANGED <<file, page, config, scraped,
                   update_mode, is_interactive,
                   global_driver_restarts, bound,
                   matches_with_stage, matches_to_process, i, successful_count,
                   failed_count, wbuf, summary, report>>

(* ------------------------------------------------------- item processor *)
\* Variant: the save writes the new Record alone instead of extending the
\* existing list.
NewData_Overwrite(f, match_data, insert_at_beginning, ensure_desc_order) ==
    <<match_data>>

\* Variant: the new Record is added to a parsed list only.
NewData_ListOnly(f, match_data, insert_at_beginning, ensure_desc_order) ==
    IF f.kind = "list" THEN Append(f.data, match_data) ELSE <<>>

\* save_match_incremental, lines 170-189: the list that will be written.
\* A missing file, one that json.load rejects, or a non-list gives [].
NewData(f, match_data, insert_at_beginning, ensure_desc_order) ==
    LET existing_data == IF f.kind = "list" THEN f.data ELSE <<>>
        added == IF insert_at_beginning THEN <<match_data>> \o existing_data
                 ELSE Append(existing_data, match_data)
    IN IF ensure_desc_order THEN _sort_matches(added, "desc") ELSE added

\* scrape_match_with_error_handling is always called with attempt=1
\* (line 1202 passes no attempt).
CallAttempt == 1

\* Line 1060: a WebDriverException is re-raised while attempt < max_attempts.
Reraise(att) == att < MAX_RECONNECTION_ATTEMPTS

\* The Item Processor has been handed match_info.
Attempted(h) ==
    [h EXCEPT !.attempted = @ \cup {match_info}, !.resumed = TRUE, !.delay = "",
              !.handed = Append(@, i + 1), !.attempts[match_info] = @ + 1]

\* Variant: no sleep between items.
add_human_delay_None(h) == h

\* Line 1212, add_human_delay(2, 4): the loop sleeps after the result of an
\* item was counted.
add_human_delay(h) == [h EXCEPT !.delay = "pace"]

\* Variant: after a False result the loop takes the same item again.
ReturnFalse_NoAdvance ==
    /\ failed_count' = failed_count + 1
    /\ i' = i
    /\ pc' = "loop"
    /\ match_info' = 0
    /\ UNCHANGED <<successful_count, global_driver_restarts, driver, attempt>>

\* Lines 1208-1212 after a False result: count, pace, next item.
ReturnFalse ==
    /\ failed_count' = failed_count + 1
    /\ i' = i + 1
    /\ pc' = "loop"
    /\ match_info' = 0
    /\ UNCHANGED <<successful_count, global_driver_restarts, driver, attempt>>

\* Lines 1206-1207 and 1212 after a True result.
ReturnTrue ==
    /\ successful_count' = successful_count + 1
    /\ i' = i + 1
    /\ pc' = "loop"
    /\ match_info' = 0
    /\ UNCHANGED <<failed_count, global_driver_restarts, driver, attempt>>

HistFailed(h) ==
    [h EXCEPT !.failed_ids = @ \cup {match_info}, !.any_failed = TRUE]

HistFatal(h) ==
    [h EXCEPT !.fatal[match_info] = @ + 1, !.last_fatal = match_info,
              !.resumed = FALSE, !.delay = "reconnect"]

\* Variant: the session-fatal error strikes after the artifact was opened
\* for writing and leaves it truncated.
Item_TornOnFatal(outcome) ==
    /\ pc = "item"
    /\ CASE outcome = "ok" ->
              /\ wbuf' = NewData(file, MakeRecord(match_info), FALSE, FALSE)
              /\ file' = Torn
              /\ pc' = "save_dump"
              /\ hist' = [Attempted(hist) EXCEPT !.before = file]
              /\ UNCHANGED <<i, successful_count, failed_count, match_info,
                             global_driver_restarts, driver, attempt>>
         [] outcome \in {"transient", "open_fail"} ->
              /\ ReturnFalse
              /\ hist' = add_human_delay(HistFailed(Attempted(hist)))
              /\ UNCHANGED <<file, wbuf>>
         [] outcome = "fatal" ->
              /\ OnWebDriverException(HistFatal(Attempted(hist)))
              /\ file' = Torn
              /\ UNCHANGED <<i, successful_count, failed_count, wbuf>>
    /\ UNCHANGED <<page, config, scraped,
                   update_mode, is_interactive, bound,
                   matches_with_stage, matches_to_process, summary, report>>

\* Variant: the item whose WebDriverException propagates is counted as
\* failed first.
Item_FatalCounted(outcome) ==
    /\ pc = "item"
    /\ CASE outcome = "ok" ->
              /\ wbuf' = NewData(file, MakeRecord(match_info), FALSE, FALSE)
              /\ file' = Torn
              /\ pc' = "save_dump"
              /\ hist' = [Attempted(hist) EXCEPT !.before = file]
              /\ UNCHANGED <<i, successful_count, failed_count, match_info,
                             global_driver_restarts, driver, attempt>>
         [] outcome \in {"transient", "open_fail"} ->
              /\ ReturnFalse
              /\ hist' = add_human_delay(HistFailed(Attempted(hist)))
              /\ UNCHANGED <<file, wbuf>>
         [] outcome = "fatal" ->
              /\ OnWebDriverException(HistFatal(Attempted(hist)))
              /\ failed_count' = failed_count + 1
              /\ UNCHANGED <<i, successful_count, file, wbuf>>
    /\ UNCHANGED <<page, config, scraped,
                   update_mode, is_interactive, bound,
                   matches_with_stage, matches_to_process, summary, report>>

\* scrape_match_with_error_handling, lines 997-1070, up to the moment the
\* artifact is opened for writing (line 192).
\*   "ok"        navigation and extraction succeed, the file is opened
\*   "transient" an exception other than WebDriverException (line 1068)
\*   "fatal"     a WebDriverException of the session (line 1058)
\*   "open_fail" open(filepath, 'w') raises: save returns False (line 199)
Item(outcome) ==
    /\ pc = "item"
    /\ CASE outcome = "ok" ->
              /\ wbuf' = NewData(file, MakeRecord(match_info), FALSE, FALSE)
              /\ file' = Torn
              /\ pc' = "save_dump"
              /\ hist' = [Attempted(hist) EXCEPT !.before = file]
              /\ UNCHANGED <<i, successful_count, failed_count, match_info,
                             global_driver_restarts, driver, attempt>>
         [] outcome \in {"transient", "open_fail"} ->
              /\ ReturnFalse
              /\ hist' = add_human_delay(HistFailed(Attempted(hist)))
              /\ UNCHANGED <<file, wbuf>>
         [] outcome = "fatal" ->
              /\ IF Reraise(CallAttempt)
                 THEN /\ OnWebDriverException(HistFatal(Attempted(hist)))
                      /\ UNCHANGED <<i, successful_count, failed_count>>
                 ELSE /\ ReturnFalse
                      /\ hist' = add_human_delay(HistFailed(Attempted(hist)))
              /\ UNCHANGED <<file, wbuf>>
    /\ UNCHANGED <<page, config, scraped,
                   update_mode, is_interactive, bound,
                   matches_with_stage, matches_to_process, summary, report>>

\* Variant: a save that failed is reported as done.
SaveDump_HidesFailure(ok) ==
    /\ pc = "save_dump"
    /\ wbuf' = <<>>
    /\ file' = IF ok THEN ListFile(wbuf) ELSE Torn
    /\ ReturnTrue
    /\ hist' = add_human_delay(IF ok THEN [hist EXCEPT !.saved = @ + 1,
                                                       !.failed_ids = @ \ {match_info},
                                                       !.before = Absent]
                               ELSE [hist EXCEPT !.before = Absent])
    /\ UNCHANGED <<page, config, scraped,
                   update_mode, is_interactive, bound,
                   matches_with_stage, matches_to_process, summary, report>>

\* save_match_incremental, lines 192-199: json.dump ends and the save
\* returns True, or it raises, the file keeps what was written so far and
\* the save returns False.
SaveDump(ok) ==
    /\ pc = "save_dump"
    /\ wbuf' = <<>>
    /\ IF ok
       THEN /\ file' = ListFile(wbuf)
            /\ ReturnTrue
            /\ hist' = add_human_delay([hist EXCEPT !.saved = @ + 1,
                                                     !.failed_ids = @ \ {match_info},
                                                     !.before = Absent])
       ELSE /\ file' = Torn
            /\ ReturnFalse
            /\ hist' = add_human_delay([HistFailed(hist) EXCEPT !.before = Absent])
    /\ UNCHANGED <<page, config, scraped,
                   update_mode, is_interactive, bound,
                   matches_with_stage, matches_to_process, summary, report>>

(* ------------------------------------------------------------- finalize *)
\* config.DEFAULT_UPDATE_ORDER_DESC
DEFAULT_UPDATE_ORDER_DESC == TRUE

\* Line 1261.
FinalOrder(order_after_update) ==
    IF (order_after_update = "None" /\ DEFAULT_UPDATE_ORDER_DESC)
       \/ order_after_update = "desc"
    THEN "desc" ELSE "asc"

\* Lines 1231-1240.
Summary ==
    LET total_processed == successful_count + failed_count
    IN [processed  |-> total_processed,
        successful |-> successful_count,
        failed     |-> failed_count,
        paused     |-> IF total_processed < Len(matches_to_process)
                       THEN Len(matches_to_process) - total_processed ELSE 0]

\* Lines 1219-1274: the summary, in update mode the reorder of the
\* artifact (still inside the session scope), then the break that leaves
\* the session scope and the loop.
Finalize(order_after_update) ==
    /\ pc = "finalize"
    /\ ~update_mode => order_after_update = "None"
    /\ summary' = <<Summary>>
    /\ IF update_mode /\ file.kind = "list"
       THEN /\ file' = Torn
            /\ wbuf' = _sort_matches(file.data, FinalOrder(order_after_update))
            /\ pc' = "final_dump"
            /\ hist' = [hist EXCEPT !.order = FinalOrder(order_after_update)]
            /\ UNCHANGED driver
       ELSE /\ pc' = "DONE"
            /\ driver' = FALSE
            /\ hist' = ReleaseDriver(
                           IF update_mode
                           THEN [hist EXCEPT !.order = FinalOrder(order_after_update),
                                             !.returned = "False"]
                           ELSE hist)
            /\ UNCHANGED <<file, wbuf>>
    /\ UNCHANGED <<page, config, scraped,
                   update_mode, is_interactive,
                   global_driver_restarts, attempt, bound, matches_with_stage,
                   matches_to_process, i, successful_count, failed_count,
                   match_info, report>>

\* reorder_json_file, lines 159-165, called from line 1262; then the break
\* of line 1274.
FinalDump(ok) ==
    /\ pc = "final_dump"
    /\ file' = IF ok THEN ListFile(wbuf) ELSE Torn
    /\ wbuf' = <<>>
    /\ pc' = "DONE"
    /\ driver' = FALSE
    /\ hist' = ReleaseDriver([hist EXCEPT !.rewrite_failed = @ \/ ~ok,
                                          !.returned = IF ok THEN "True" ELSE "False"])
    /\ UNCHANGED <<page, config, scraped,
                   update_mode, is_interactive,
                   global_driver_restarts, attempt, bound,
                   matches_with_stage, matches_to_process, i, successful_count,
                   failed_count, match_info, summary, report>>

(* ----------------------------------------------------------------- spec *)
Next ==
    \/ \E um, inter, fix \in BOOLEAN, ans \in {"s", "n"} : StartRun(um, inter, fix, ans)
    \/ \E ok \in BOOLEAN : PrefixDump(ok)
    \/ \E outcome \in {"ok", "install", "chrome", "script"} : DriverAttempt(outcome)
    \/ \E listing \in Listings, lim \in Limits : Discover(listing, lim)
    \/ DiscoverFatal
    \/ Filter
    \/ LoopNext
    \/ \E choice \in {"1", "2", "3", "eof"} : BatchPause(choice)
    \/ \E outcome \in {"ok", "transient", "fatal", "open_fail"} : Item(outcome)
    \/ \E ok \in BOOLEAN : SaveDump(ok)
    \/ \E order \in {"None", "desc", "asc"} : Finalize(order)
    \/ \E ok \in BOOLEAN : FinalDump(ok)

Spec == Init /\ [][Next]_vars

\* get_match_id_list appends one entry per match row (lines 455-481) and
\* compares no ids: a listing that shows a match in two rows gives the
\* same id twice.
AllListings == SeqsUpTo(MatchIds, MaxDisc)

NextDup ==
    \/ Next
    \/ \E listing \in AllListings, lim \in Limits : Discover(listing, lim)

\* The runs of Spec and those on listings that repeat an id.
SpecDup == Init /\ [][NextDup]_vars

(* ------------------------------------------- reorder_json_file by itself *)
\* The Records an artifact may hold when reorder_json_file is called on it
\* (main, line 1328, with any file the user keeps at the output path): a
\* 'date' that parses (1..MaxDisc + 1) with the 'scraped_at' of the scrape,
\* or one that does not parse, with or without a 'scraped_at' that does.
SortRecords ==
    {[match_id |-> id, date |-> d, scraped_at |-> Today] :
        id \in MatchIds, d \in 1..(MaxDisc + 1)}
    \cup {[match_id |-> id, date |-> DatetimeMin, scraped_at |-> sa] :
             id \in MatchIds, sa \in {DatetimeMin, Today}}

\* The artifacts it may be called on: lists of at most MaxDisc + 1 such
\* Records, no file, a file that does not parse, or JSON that is no list.
SortFiles ==
    {ListFile(d) : d \in SeqsUpTo(SortRecords, MaxDisc + 1)}
    \cup {Absent, Torn, NonList}

InitSort ==
    /\ file \in SortFiles
    /\ pc = "reorder"
    /\ update_mode = TRUE
    /\ is_interactive = FALSE
    /\ global_driver_restarts = 0
    /\ driver = FALSE
    /\ attempt = 0
    /\ bound = FALSE
    /\ matches_with_stage = <<>>
    /\ matches_to_process = <<>>
    /\ i = 0
    /\ successful_count = 0
    /\ failed_count = 0
    /\ match_info = 0
    /\ wbuf = <<>>
    /\ summary = <<>>
    /\ report = <<>>
    /\ page = NoPage
    /\ config = ShippedConfig
    /\ scraped = NoData
    /\ hist = NewHist(file)

\* Variant: what is not a list is taken for the empty list and written.
ReorderOpen_NoCheck(order) ==
    /\ pc = "reorder"
    /\ wbuf' = IF file.kind = "list" THEN _sort_matches(file.data, order)
               ELSE <<>>
    /\ file' = Torn
    /\ pc' = "reorder_dump"
    /\ hist' = [hist EXCEPT !.order = order]
    /\ UNCHANGED <<page, config, scraped,
                   update_mode, is_interactive, global_driver_restarts, driver,
                   attempt, bound, matches_with_stage, matches_to_process, i,
                   successful_count, failed_count, match_info, summary, report>>

\* reorder_json_file, lines 151-159: a missing file, one that json.load
\* rejects or a non-list returns False; a list is sorted and the file is
\* opened for writing.
ReorderOpen(order) ==
    /\ pc = "reorder"
    /\ IF file.kind = "list"
       THEN /\ wbuf' = _sort_matches(file.data, order)
            /\ file' = Torn
            /\ pc' = "reorder_dump"
            /\ hist' = [hist EXCEPT !.order = order]
       ELSE /\ pc' = "reordered"
            /\ hist' = [hist EXCEPT !.order = order, !.returned = "False"]
            /\ UNCHANGED <<file, wbuf>>
    /\ UNCHANGED <<page, config, scraped,
                   update_mode, is_interactive, global_driver_restarts, driver,
                   attempt, bound, matches_with_stage, matches_to_process, i,
                   successful_count, failed_count, match_info, summary, report>>

\* reorder_json_file, lines 159-165: json.dump ends and True is returned,
\* or it raises and False is returned.
ReorderDump(ok) ==
    /\ pc = "reorder_dump"
    /\ file' = IF ok THEN ListFile(wbuf) ELSE Torn
    /\ wbuf' = <<>>
    /\ pc' = "reordered"
    /\ hist' = [hist EXCEPT !.rewrite_failed = ~ok,
                            !.returned = IF ok THEN "True" ELSE "False"]
    /\ UNCHANGED <<page, config, scraped,
                   update_mode, is_interactive, global_driver_restarts, driver,
                   attempt, bound, matches_with_stage, matches_to_process, i,
                   successful_count, failed_count, match_info, summary, report>>

NextSort ==
    \/ \E order \in {"desc", "asc"} : ReorderOpen(order)
    \/ \E ok \in BOOLEAN : ReorderDump(ok)

\* One call of reorder_json_file on any artifact.
SpecSort == InitSort /\ [][NextSort]_vars

(* ------------------------------------- load_existing_match_ids by itself *)
InitLoad ==
    /\ file \in SortFiles
    /\ pc = "load"
    /\ page = NoPage
    /\ config = ShippedConfig
    /\ scraped = NoData
    /\ update_mode = TRUE
    /\ is_interactive = FALSE
    /\ global_driver_restarts = 0
    /\ driver = FALSE
    /\ attempt = 0
    /\ bound = FALSE
    /\ matches_with_stage = <<>>
    /\ matches_to_process = <<>>
    /\ i = 0
    /\ successful_count = 0
    /\ failed_count = 0
    /\ match_info = 0
    /\ wbuf = <<>>
    /\ summary = <<>>
    /\ report = <<>>
    /\ hist = NewHist(file)

\* load_existing_match_ids, lines 100-114, called a first and a second
\* time: the file is opened for reading only.
LoadIds ==
    /\ pc \in {"load", "load_again"}
    /\ pc' = IF pc = "load" THEN "load_again" ELSE "loaded"
    /\ hist' = [hist EXCEPT !.loads = @ + 1,
                            !.existing = load_existing_match_ids(file)]
    /\ UNCHANGED <<file, page, config, scraped,
                   update_mode, is_interactive,
                   global_driver_restarts, driver, attempt, bound,
                   matches_with_stage, matches_to_process, i, successful_count,
                   failed_count, match_info, wbuf, summary, report>>

NextLoad == LoadIds

\* Two consecutive calls of load_existing_match_ids on any artifact.
SpecLoad == InitLoad /\ [][NextLoad]_vars

(* ------------------------- scrape_match_with_error_handling pass by pass *)
\* Values of the sub-fields 'quarter_stats' and 'match_stats' of a Record:
\* a dict with statistics, the empty dict, or no such key.
Stats == "stats"
EmptyDict == "{}"
NoKey == "absent"

\* The flags of config.py the Item Processor tests with hasattr and value.
Configs == [ENABLE_QUARTER_STATS : BOOLEAN, REMOVE_TOTAL_MATCH_STATS : BOOLEAN]

\* The artifacts one call is made on.
ItemFiles ==
    {ListFile(d) : d \in SeqsUpTo(SortRecords, 1)} \cup {Absent, Torn, NonList}

InitItem ==
    /\ file \in ItemFiles
    /\ pc = "navigate"
    /\ page = NoPage
    /\ config \in Configs
    /\ scraped = NoData
    /\ update_mode = FALSE
    /\ is_interactive = FALSE
    /\ global_driver_restarts = 0
    /\ driver = TRUE
    /\ attempt = 0
    /\ bound = TRUE
    /\ match_info \in MatchIds
    /\ matches_with_stage = <<match_info>>
    /\ matches_to_process = <<match_info>>
    /\ i = 0
    /\ successful_count = 0
    /\ failed_count = 0
    /\ wbuf = <<>>
    /\ summary = <<>>
    /\ report = <<>>
    /\ hist = [NewHist(file) EXCEPT !.acquired = 1, !.live = 1, !.looped = TRUE]

\* Lines 1000-1009: navigation and extract_match_data, then the id stamp.
\*   "wde"   a WebDriverException: re-raised at line 1064 (attempt is 1)
\*   "other" any other exception: False at line 1070
Primary(outcome) ==
    /\ pc = "navigate"
    /\ CASE outcome = "ok" ->
              /\ scraped' = [match_id |-> match_info,
                             date |-> MatchDate(match_info),
                             scraped_at |-> Today,
                             quarter_stats |-> NoKey,
                             match_stats |-> NoKey]
              /\ pc' = "quarter_stats"
              /\ hist' = Attempted(hist)
              /\ UNCHANGED <<i, successful_count, failed_count, match_info,
                             global_driver_restarts, driver, attempt>>
         [] outcome = "wde" /\ Reraise(CallAttempt) ->
              /\ pc' = "raised"
              /\ hist' = HistFatal(Attempted(hist))
              /\ UNCHANGED <<i, successful_count, failed_count, match_info,
                             global_driver_restarts, driver, attempt, scraped>>
         [] OTHER ->
              /\ ReturnFalse
              /\ hist' = add_human_delay(HistFailed(Attempted(hist)))
              /\ UNCHANGED scraped
    /\ UNCHANGED file
    /\ UNCHANGED <<page, config, update_mode, is_interactive, bound,
                   matches_with_stage, matches_to_process, wbuf, summary,
                   report>>

\* Variant: a WebDriverException of the quarter pass is not caught.
QuarterPass_Propagates(outcome) ==
    /\ pc = "quarter_stats"
    /\ IF outcome = "wde"
       THEN /\ pc' = "raised"
            /\ hist' = [hist EXCEPT !.degraded = @ \cup {"quarter_stats"}]
            /\ UNCHANGED scraped
       ELSE /\ pc' = "match_stats"
            /\ scraped' = [scraped EXCEPT !.quarter_stats =
                               IF outcome = "stats" THEN Stats ELSE EmptyDict]
            /\ hist' = IF outcome = "stats" THEN hist
                       ELSE [hist EXCEPT !.degraded = @ \cup {"quarter_stats"}]
    /\ UNCHANGED <<file, i, successful_count, failed_count, match_info,
                   global_driver_restarts, driver, attempt>>
    /\ UNCHANGED <<page, config, update_mode, is_interactive, bound,
                   matches_with_stage, matches_to_process, wbuf, summary,
                   report>>

\* Lines 1015-1032: the quarter pass, when ENABLE_QUARTER_STATS is set.
\*   "stats" extract_team_stats_by_quarter returns statistics
\*   "inner" it catches an exception itself and returns {} (lines 891-893)
\*   "wde", "other" an exception leaves it and is caught at line 1030
QuarterPass(outcome) ==
    /\ pc = "quarter_stats"
    /\ pc' = "match_stats"
    /\ IF config.ENABLE_QUARTER_STATS
       THEN /\ scraped' = [scraped EXCEPT !.quarter_stats =
                               IF outcome = "stats" THEN Stats ELSE EmptyDict]
            /\ hist' = IF outcome = "stats" THEN hist
                       ELSE [hist EXCEPT !.degraded = @ \cup {"quarter_stats"}]
       ELSE UNCHANGED <<scraped, hist>>
    /\ UNCHANGED <<file, i, successful_count, failed_count, match_info,
                   global_driver_restarts, driver, attempt>>
    /\ UNCHANGED <<page, config, update_mode, is_interactive, bound,
                   matches_with_stage, matches_to_process, wbuf, summary,
                   report>>

\* Lines 1034-1048: the match statistics pass, unless
\* REMOVE_TOTAL_MATCH_STATS is set; an exception is caught at line 1043.
StatsPass(outcome) ==
    /\ pc = "match_stats"
    /\ pc' = "save"
    /\ IF ~config.REMOVE_TOTAL_MATCH_STATS
       THEN /\ scraped' = [scraped EXCEPT !.match_stats =
                               IF outcome = "stats" THEN Stats ELSE EmptyDict]
            /\ hist' = IF outcome = "stats" THEN hist
                       ELSE [hist EXCEPT !.degraded = @ \cup {"match_stats"}]
       ELSE /\ scraped' = [scraped EXCEPT !.match_stats = EmptyDict]
            /\ UNCHANGED hist
    /\ UNCHANGED <<file, i, successful_count, failed_count, match_info,
                   global_driver_restarts, driver, attempt>>
    /\ UNCHANGED <<page, config, update_mode, is_interactive, bound,
                   matches_with_stage, matches_to_process, wbuf, summary,
                   report>>

\* Lines 1050-1056 and 1206-1212: save_match_incremental, the count and the
\* sleep.
\*   "open_fail" the file cannot be opened: False, nothing written
\*   "dump_fail" json.dump raises after the file was truncated: False
SaveScraped(outcome) ==
    /\ pc = "save"
    /\ CASE outcome = "ok" ->
              /\ file' = ListFile(NewData(file, scraped, FALSE, FALSE))
              /\ ReturnTrue
              /\ hist' = add_human_delay([hist EXCEPT !.saved = @ + 1])
         [] outcome = "open_fail" ->
              /\ ReturnFalse
              /\ hist' = add_human_delay(HistFailed(hist))
              /\ UNCHANGED file
         [] OTHER ->
              /\ file' = Torn
              /\ ReturnFalse
              /\ hist' = add_human_delay(HistFailed(hist))
    /\ UNCHANGED scraped
    /\ UNCHANGED <<page, config, update_mode, is_interactive, bound,
                   matches_with_stage, matches_to_process, wbuf, summary,
                   report>>

NextItem ==
    \/ \E outcome \in {"ok", "wde", "other"} : Primary(outcome)
    \/ \E outcome \in {"stats", "inner", "wde", "other"} : QuarterPass(outcome)
    \/ \E outcome \in {"stats", "wde", "other"} : StatsPass(outcome)
    \/ \E outcome \in {"ok", "open_fail", "dump_fail"} : SaveScraped(outcome)

\* One call of scrape_match_with_error_handling from the for loop.
SpecItem == InitItem /\ [][NextItem]_vars

(* ------------------------------------------ get_match_id_list row by row *)
\* Texts are sequences of characters; None and '' are both the empty
\* sequence (the code only tests them for truth).
MaxRows == 4
\* config.MAX_SHOW_MORE_CLICKS, 30 in config.py, scaled.
MAX_SHOW_MORE_CLICKS == 3
\* The largest number of further blocks of results a listing holds back.
MaxMore == 4
StageMaxLen == 80

None == <<>>
NA == <<"N", "/", "A">>
S_NBA == <<"N", "B", "A">>
S_Playoffs == <<"P", "l", "a", "y", "o", "f", "f", "s">>
S_Final == <<"F", "i", "n", "a", "l">>
S_SemiFinals == <<"S", "e", "m", "i", " ", "f", "i", "n", "a", "l", "s", " ">>
S_PlayOffsContext == <<"N", "B", "A", " ", "-", " ", "P", "l", "a", "y", " ", "O", "f", "f", "s">>

\* str.lower on the characters the texts above are made of.
LowerChar(c) ==
    CASE c = "A" -> "a" [] c = "B" -> "b" [] c = "F" -> "f"
      [] c = "N" -> "n" [] c = "O" -> "o" [] c = "P" -> "p"
      [] c = "S" -> "s" [] OTHER -> c

lower(t) == [k \in 1..Len(t) |-> LowerChar(t[k])]

\* k in t
Contains(t, k) ==
    \E a \in 1..(Len(t) - Len(k) + 1) : SubSeq(t, a, a + Len(k) - 1) = k

\* t.replace(a, b)
RECURSIVE replace(_, _, _)
replace(t, a, b) ==
    IF Len(t) < Len(a) THEN t
    ELSE IF SubSeq(t, 1, Len(a)) = a
         THEN b \o replace(SubSeq(t, Len(a) + 1, Len(t)), a, b)
         ELSE <<Head(t)>> \o replace(Tail(t), a, b)

\* t.strip()
RECURSIVE strip(_)
strip(t) ==
    IF t = <<>> THEN t
    ELSE IF Head(t) = " " THEN strip(Tail(t))
    ELSE IF t[Len(t)] = " " THEN strip(SubSeq(t, 1, Len(t) - 1))
    ELSE t

\* keys of _is_specific, line 421
StageKeys ==
    {<<"f", "i", "n", "a", "l">>,
     <<"s", "e", "m", "i">>,
     <<"q", "u", "a", "r", "t", "e", "r">>,
     <<"r", "o", "u", "n", "d">>,
     <<"g", "r", "o", "u", "p">>,
     <<"p", "h", "a", "s", "e">>,
     <<"s", "t", "a", "g", "e">>,
     <<"p", "l", "a", "c", "e">>}

\* _is_specific, lines 415-422
_is_specific(text) ==
    IF text = None THEN FALSE
    ELSE LET t == replace(replace(lower(text),
                                  <<"s", "e", "m", "i", " ", "f", "i", "n", "a", "l", "s">>,
                                  <<"s", "e", "m", "i", "-", "f", "i", "n", "a", "l", "s">>),
                          <<"q", "u", "a", "r", "t", "e", "r", " ", "f", "i", "n", "a", "l", "s">>,
                          <<"q", "u", "a", "r", "t", "e", "r", "-", "f", "i", "n", "a", "l", "s">>)
         IN (\E k \in StageKeys : Contains(t, k)) /\ Len(text) < StageMaxLen

\* _compose_stage, lines 414-427
_compose_stage(league_base_name, row_stage_text, playoffs_text) ==
    IF _is_specific(row_stage_text)
    THEN league_base_name \o <<" ", "-", " ">> \o strip(row_stage_text)
    ELSE IF playoffs_text # None THEN playoffs_text
    ELSE league_base_name

\* The rows find_elements gives at line 432.  A block row ('event__round',
\* or an 'event__title' with or without its strong element) carries a text;
\* a match row carries the text of a round element inside it (None: there
\* is none) and has an id attribute or not.
BlockRows ==
    {[classes |-> "event__round", text |-> t, strong |-> FALSE, has_id |-> FALSE] :
        t \in {S_Playoffs, S_Final}}
    \cup {[classes |-> "event__title", text |-> S_SemiFinals, strong |-> TRUE,
           has_id |-> FALSE],
          [classes |-> "event__title", text |-> None, strong |-> FALSE,
           has_id |-> FALSE]}

MatchRows ==
    {[classes |-> "event__match", text |-> t, strong |-> FALSE, has_id |-> TRUE] :
        t \in {None, S_Final, S_Playoffs}}
    \cup {[classes |-> "event__match", text |-> None, strong |-> FALSE,
           has_id |-> FALSE]}

\* The results pages: the league name read at lines 359-389, the playoff
\* context of the page heading if it has one, whether the
\* '.sportName.basketball' container shows, and the rows.
Pages ==
    [league_base : {S_NBA},
     playoffs_context_text : {None, S_PlayOffsContext},
     container : BOOLEAN,
     all_rows : SeqsUpTo(BlockRows \cup MatchRows, MaxRows)]

\* Variant: the stage of the current block is not used.
RowStageText_OwnOnly(row, current_block_stage) == strip(row.text)

\* Lines 461-478 for the match row at position k: the text inside the row,
\* else the stage of the current block unless that is "N/A".
RowStageText(row, current_block_stage) ==
    IF strip(row.text) = None /\ current_block_stage # NA
    THEN current_block_stage
    ELSE strip(row.text)

\* The loop of lines 434-481 from row k on; the id attribute of the row at
\* position k is k.
RECURSIVE WalkRows(_, _, _, _)
WalkRows(pg, k, current_block_stage, acc) ==
    IF k > Len(pg.all_rows) THEN acc
    ELSE LET row == pg.all_rows[k]
         IN IF row.classes = "event__round"
            THEN WalkRows(pg, k + 1, strip(row.text), acc)
            ELSE IF row.classes = "event__title"
            THEN WalkRows(pg, k + 1,
                          IF row.strong THEN strip(row.text) ELSE NA, acc)
            ELSE IF ~row.has_id
            THEN WalkRows(pg, k + 1, current_block_stage, acc)
            ELSE WalkRows(pg, k + 1, current_block_stage,
                          Append(acc,
                                 [id |-> k,
                                  stage |-> _compose_stage(
                                      pg.league_base,
                                      RowStageText(row, current_block_stage),
                                      pg.playoffs_context_text)]))

\* Variant: the rows are read without waiting for the container.
get_match_id_list_NoWait(pg) == WalkRows(pg, 1, NA, <<>>)

\* get_match_id_list from line 407 on
get_match_id_list(pg) ==
    IF ~pg.container THEN <<>> ELSE WalkRows(pg, 1, NA, <<>>)

InitStage ==
    /\ file = Absent
    /\ pc = "listing"
    /\ page \in Pages
    /\ config = ShippedConfig
    /\ scraped = NoData
    /\ update_mode = FALSE
    /\ is_interactive = FALSE
    /\ global_driver_restarts = 0
    /\ driver = TRUE
    /\ attempt = 0
    /\ bound = FALSE
    /\ matches_with_stage = <<>>
    /\ matches_to_process = <<>>
    /\ i = 0
    /\ successful_count = 0
    /\ failed_count = 0
    /\ match_info = 0
    /\ wbuf = <<>>
    /\ summary = <<>>
    /\ report = <<>>
    /\ hist = [NewHist(file) EXCEPT !.acquired = 1, !.live = 1]

\* Lines 1110-1114 in the first session of a run without --old or --new:
\* matches_with_stage = scraper.get_match_id_list(driver, url); an empty
\* list returns from the run, which leaves the session scope.
ListPage ==
    /\ pc = "listing"
    /\ matches_with_stage' = get_match_id_list(page)
    /\ bound' = TRUE
    /\ IF matches_with_stage' = <<>>
       THEN /\ pc' = "DONE"
            /\ driver' = FALSE
            /\ hist' = ReleaseDriver([hist EXCEPT !.discoveries = @ + 1])
       ELSE /\ pc' = "filter"
            /\ hist' = [hist EXCEPT !.discoveries = @ + 1]
            /\ UNCHANGED driver
    /\ UNCHANGED <<file, page, config, scraped,
                   update_mode, is_interactive,
                   global_driver_restarts, attempt, matches_to_process,
                   i, successful_count, failed_count, match_info, wbuf,
                   summary, report>>

NextStage == ListPage

\* One call of get_match_id_list on any results page.
SpecStage == InitStage /\ [][NextStage]_vars

(* =============================================================== claims *)
\* The ids of the Records in the artifact, in file order.
StoreIds == IdsOf(file.data)

\* Fatal item errors of the current run.
RECURSIVE SumFatal(_)
SumFatal(n) == IF n = 0 THEN 0 ELSE hist.fatal[n] + SumFatal(n - 1)
FatalTotal == SumFatal(MaxDisc)

\* x stands before y in the sequence s.
Precedes(x, y, s) == \E a, b \in 1..Len(s) : a < b /\ s[a] = x /\ s[b] = y

\* The Records of the first n items of the sequence s.
RecordsOf(s, n) == [k \in 1..n |-> MakeRecord(s[k])]

\* The same Records, each as often, in any order.
SameRecords(d, e) ==
    /\ Len(d) = Len(e)
    /\ \A r \in SeqToSet(d) \cup SeqToSet(e) : Count(d, r) = Count(e, r)

(* C1 -- Dedup invariant: over any sequence of orchestrator runs (with      *)
(* item failures, session restarts, user stops and aborts), from a store    *)
(* with pairwise distinct ids and listings with pairwise distinct ids, the  *)
(* store never holds two Records with the same id.                          *)
C1_Dedup == NoDuplicates(StoreIds)

\* A later run, on a store an earlier run filled, added a Record after a
\* session restart.
C1_Witness ==
    /\ pc = "DONE"
    /\ hist.store0.kind = "list"
    /\ Len(file.data) > Len(hist.store0.data)
    /\ global_driver_restarts > 0

(* C2 -- Crash-safety: from an empty store, at the point between the        *)
(* N-th item's save returning True and item N+1 beginning (items 1..N all   *)
(* saved, session restarts allowed in between), the store holds exactly     *)
(* the Records of items 1..N, one per item, in item order.  A process       *)
(* killed there leaves that store.                                          *)
C2_CrashSafety ==
    (/\ pc \in {"loop", "pause", "finalize"}
     /\ hist.store0 = Absent
     /\ ~hist.any_failed
     /\ hist.saved >= 1)
    => /\ hist.saved <= Len(matches_with_stage)
       /\ file = ListFile(RecordsOf(matches_with_stage, hist.saved))

\* Two items saved, none failed, the next not begun.
C2_Witness ==
    /\ pc = "loop"
    /\ hist.store0 = Absent
    /\ ~hist.any_failed
    /\ i = 2
    /\ hist.saved = 2

\* A finished run in which discovery succeeded, every acquisition gave a
\* session, every item attempt raised a session-fatal error and no
\* non-session error ended the run.
AlwaysFatalRun ==
    /\ pc \in {"DONE", "ABORTED"}
    /\ hist.attempted # {}
    /\ hist.saved = 0
    /\ ~hist.any_failed
    /\ ~hist.no_session

\* No Record has been added to what the run found.
NothingWritten ==
    /\ Len(file.data) <= Len(hist.store0.data)
    /\ SeqToSet(file.data) \subseteq SeqToSet(hist.store0.data)

ScenarioAB ==
    /\ pc = "DONE"
    /\ hist.store0 = Absent
    /\ matches_with_stage = <<1, 2>>
    /\ hist.fatal[1] = 0
    /\ hist.fatal[2] = 1
    /\ FatalTotal = 1
    /\ ~hist.no_session
    /\ ~hist.any_failed
    /\ ~hist.rewrite_failed
    /\ hist.saved = 2

(* C4 -- Scenario: listing [A, B], empty store, A succeeds, B raises a      *)
(* session-fatal error at its first attempt and succeeds after one          *)
(* restart: the run ends with A and B in the store, each exactly once, and  *)
(* global_restarts = 1.                                                     *)
C4_Scenario ==
    ScenarioAB =>
        /\ file.kind = "list"
        /\ Len(StoreIds) = 2
        /\ Count(StoreIds, 1) = 1
        /\ Count(StoreIds, 2) = 1
        /\ global_driver_restarts = 1

C4_Witness == ScenarioAB /\ summary # <<>>

(* C5 -- The summary reported at finalize counts the whole run:             *)
(* successful = Records the run added to the store, failed = items that     *)
(* ended the run failed, also when session restarts happened in between.    *)
C5_SummaryCountsRun ==
    (pc = "DONE" /\ summary # <<>>) =>
        /\ summary[1].successful = hist.saved
        /\ summary[1].failed = Cardinality(hist.failed_ids)

\* A started run finds every listed id in the store (and the optional
\* rewrite before the update did not fail).
AllListedStored ==
    /\ pc \in Terminal
    /\ bound
    /\ SeqToSet(matches_with_stage) \subseteq load_existing_match_ids(hist.store0)
    /\ ~hist.rewrite_failed

(* C6 -- Resume idempotence: a run against a listing all of whose ids are   *)
(* already in the store attempts no item, adds no Record, leaves the set    *)
(* of stored Records unchanged and reports zero items to process; as the    *)
(* store is unchanged, a second such run gives the same result.             *)
C6_ResumeIdempotent ==
    AllListedStored =>
        /\ pc = "DONE"
        /\ hist.attempted = {}
        /\ hist.saved = 0
        /\ SameRecords(file.data, hist.store0.data)
        /\ report # <<>>
        /\ report[1].to_process = 0
        /\ summary = <<>>
        /\ global_driver_restarts = 0

C6_Witness ==
    /\ AllListedStored
    /\ Len(matches_with_stage) = 2
    /\ update_mode

(* C7 -- Within one run items are attempted strictly in discovery order:    *)
(* when item y is attempted after item x (y # x), x precedes y in the       *)
(* discovered sequence, also across session restarts.                       *)
C7_DiscoveryOrder ==
    pc = "item" =>
        \A x \in hist.attempted \ {match_info} :
            Precedes(x, match_info, matches_with_stage)

(* C8 -- After a session-fatal error on item k the first item attempted     *)
(* with the new session is that same item k, whatever happened to the       *)
(* items before k.                                                          *)
C8_ResumeSameItem ==
    (pc = "item" /\ ~hist.resumed) => match_info = hist.last_fatal

(* C9 -- An item whose processing ended with an item-transient failure is   *)
(* counted as failed and is not attempted again during the same run, even   *)
(* if a session restart happens later in that run.                          *)
C9_NoRetryOfFailed ==
    pc = "item" => match_info \notin hist.failed_ids

(* C10 -- Per-item attempts are bounded by max_item_attempts: an item that  *)
(* keeps raising session-fatal errors is recorded as failed and skipped     *)
(* once its attempts reach max_item_attempts, and the loop goes on with     *)
(* the next item.                                                           *)
C10_ItemAttemptsBounded ==
    \A id \in MatchIds :
        hist.fatal[id] >= MAX_RECONNECTION_ATTEMPTS =>
            /\ id \in hist.failed_ids
            /\ pc # "ABORTED"

(* C11 -- The process loop never hands the Item Processor an id that        *)
(* already has a Record in the store, for any discovered sequence (also     *)
(* one that holds the same id in more than one row) and across session      *)
(* restarts within the run.                                                 *)
C11_NeverProcessStored ==
    pc = "item" => match_info \notin load_existing_match_ids(file)

(* C12 -- Scoped session with guaranteed release: at every moment of a run  *)
(* at most one session is live; the live session is released on every exit  *)
(* path of its scope (completion, early return, user stop, session-fatal    *)
(* error, unexpected error): between two scopes and once the run has        *)
(* terminated no session is live.                                           *)
C12_ScopedSession ==
    /\ hist.live \in {0, 1}
    /\ driver <=> hist.live = 1
    /\ hist.acquired - hist.released = hist.live
    /\ pc \in Terminal \cup {"acquire"} => hist.live = 0

\* A run that released one session after a session-fatal error and the next
\* one after an unexpected error inside the loop.
C12_Witness ==
    /\ pc = "UNEXPECTED"
    /\ hist.looped
    /\ hist.acquired = 2
    /\ hist.released = 2

\* The acquisition in progress gives up: its error leaves the context
\* manager and reaches a handler of the orchestrator.
GaveUp ==
    /\ ~driver'
    /\ \/ global_driver_restarts' # global_driver_restarts
       \/ pc' = "UNEXPECTED"

(* C13 -- Session acquisition makes at most max_attempts construction       *)
(* attempts: it yields the session of the first attempt that succeeds; a    *)
(* failed attempt before the last is followed by another attempt; when the  *)
(* last attempt fails its error is propagated to the orchestrator without   *)
(* a session being yielded; a session partially built by a failed attempt   *)
(* is released before the next attempt.                                     *)
C13_AcquisitionAttempts ==
    [][pc = "acquire" =>
         /\ attempt < DRIVER_MAX_ATTEMPTS
         /\ driver' => /\ pc' \in {"discover", "filter"}
                       /\ hist'.acquired = hist.acquired + 1
         /\ GaveUp => /\ attempt + 1 = DRIVER_MAX_ATTEMPTS
                      /\ hist'.acquired = hist.acquired
                      /\ hist'.no_session
         /\ (~driver' /\ ~GaveUp) => /\ pc' = "acquire"
                                     /\ attempt' = attempt + 1
                                     /\ attempt' < DRIVER_MAX_ATTEMPTS
         /\ hist'.live = IF driver' THEN 1 ELSE 0]_vars

\* One acquisition gave up after its last attempt and the next one, after
\* the restart, yielded a session.
C13_Witness ==
    /\ hist.no_session
    /\ global_driver_restarts = 1
    /\ hist.acquired = 1
    /\ driver

(* C14 -- The Discoverer runs at most once per orchestrator run: it runs    *)
(* in the first session only, never again after a session restart, and the  *)
(* sequence it returned stays the one that is filtered after every          *)
(* restart.                                                                 *)
C14_DiscoverOnce ==
    [][/\ hist'.discoveries <= 1
       /\ pc' = "discover" => global_driver_restarts' = 0
       /\ hist'.discoveries > hist.discoveries => global_driver_restarts = 0
       /\ (bound /\ pc \notin Terminal) =>
              /\ bound'
              /\ matches_with_stage' = matches_with_stage
       /\ (pc = "filter" /\ pc' = "loop") =>
              matches_to_process' =
                  FilterMatches(matches_with_stage, hist'.existing)]_vars

\* After a restart the new session has filtered the sequence of the one
\* discovery of the run.
C14_Witness ==
    /\ pc = "loop"
    /\ global_driver_restarts = 1
    /\ hist.discoveries = 1
    /\ hist.loads = 2
    /\ matches_with_stage = <<1, 2>>
    /\ matches_to_process = <<2>>

\* Positions inside the for loop of line 1184.
InLoop == {"loop", "pause", "item", "save_dump"}

Running ==
    InLoop \cup {"prefix_dump", "acquire", "discover", "filter", "finalize",
                 "final_dump"}

C17_RestartKeepsStore ==
    [][(\/ global_driver_restarts' > global_driver_restarts
        \/ global_driver_restarts > 0 /\ pc \in {"acquire", "filter"})
       => file' = file]_vars

\* A run saved item 1, then met session-fatal errors until it aborted; the
\* Record of item 1 is the store.
C17_Witness ==
    /\ pc = "ABORTED"
    /\ hist.store0 = Absent
    /\ hist.saved = 1
    /\ FatalTotal = MAX_RECONNECTION_ATTEMPTS
    /\ file = ListFile(<<MakeRecord(1)>>)

(* C18 -- saveIncremental on a store holding a valid list of Records        *)
(* extends it by exactly the new Record, appended at the end, all prior     *)
(* Records remaining unchanged in their order; an item that fails causes    *)
(* no write to the store at all (the store is what it was before the item). *)
C18_SaveAppends ==
    [][/\ (pc = "save_dump" /\ hist.before.kind = "list") =>
              \/ /\ successful_count' = successful_count + 1
                 /\ file' = ListFile(Append(hist.before.data,
                                            MakeRecord(match_info)))
              \/ /\ failed_count' = failed_count + 1
                 /\ file' = hist.before
       /\ (pc = "item" /\ failed_count' = failed_count + 1) =>
              file' = file]_vars

(* C19 -- At every point at which the process can be terminated, also       *)
(* during a write, the persisted artifact is a valid, fully parseable list  *)
(* of complete Records (or does not exist yet): it is never truncated and   *)
(* never holds a partially written Record.                                  *)
C19_AlwaysParseable == file.kind \in {"absent", "list"}

\* The keys of d do not increase ('desc') or do not decrease ('asc').
Ordered(d, order) ==
    \A a, b \in 1..Len(d) :
        a < b => IF order = "desc"
                 THEN _parse_match_datetime(d[a]) >= _parse_match_datetime(d[b])
                 ELSE _parse_match_datetime(d[a]) <= _parse_match_datetime(d[b])

\* The 'date' of the Records of d, in order.
DatesOf(d) == [k \in 1..Len(d) |-> d[k].date]

(* C20 -- Sort finalize: after reorder_json_file(path, order) returns True  *)
(* the store holds the same multiset of Records as before, ordered by       *)
(* non-increasing parsed date for 'desc' and non-decreasing for 'asc'.      *)
C20_SortFinalize ==
    (pc = "reordered" /\ hist.returned = "True") =>
        /\ file.kind = "list"
        /\ SameRecords(file.data, hist.store0.data)
        /\ Ordered(file.data, hist.order)

\* The example of the specification: dates [1, 3, 2] sorted 'desc' are
\* [3, 2, 1].
C20_Witness ==
    /\ pc = "reordered"
    /\ hist.returned = "True"
    /\ hist.order = "desc"
    /\ hist.store0.kind = "list"
    /\ DatesOf(hist.store0.data) = <<1, 3, 2>>
    /\ DatesOf(file.data) = <<3, 2, 1>>

\* C21: reorder_json_file on an artifact that is missing, empty or malformed
\* (json.load rejects it) or that holds JSON other than a list returns
\* (raises nothing), returns False and leaves the artifact as it was.
C21_SortTolerant ==
    (pc \in {"reorder_dump", "reordered"} /\ hist.store0.kind # "list")
        => /\ pc = "reordered"
           /\ hist.returned = "False"
           /\ file = hist.store0

C21_Witness ==
    /\ pc = "reordered"
    /\ hist.store0 = NonList
    /\ hist.returned = "False"
    /\ file = NonList

\* The text of the last block row in front of position k (None: there is
\* no block row there, or it shows no text).
HeaderBefore(rows, k) ==
    LET hs == {j \in 1..(k - 1) : rows[j].classes # "event__match"}
    IN IF hs = {} THEN None
       ELSE LET j == CHOOSE x \in hs : \A y \in hs : y <= x
            IN strip(rows[j].text)

\* The labels of the league alone: its name, or the playoff context of the
\* page heading.
LeagueLevel(pg) == {pg.league_base, pg.playoffs_context_text} \ {None}

\* C22: every listed match row without a text of its own gets a stage made
\* from the text of the block row in front of it, a row with a text of its
\* own gets a stage made from that text, and a label of the league alone is
\* given only to rows that have neither.
C22_StageComposition ==
    (pc = "filter" /\ page.container)
        => \A n \in 1..Len(matches_with_stage) :
              LET k == matches_with_stage[n].id
                  stage == matches_with_stage[n].stage
                  own == strip(page.all_rows[k].text)
                  header == HeaderBefore(page.all_rows, k)
              IN /\ own # None => Contains(stage, own)
                 /\ (own = None /\ header # None) => Contains(stage, header)
                 /\ stage \in LeagueLevel(page)
                        => (own = None /\ header = None)

\* The for loop was left by the break of line 1193: items remain.
Stopped ==
    /\ pc \in {"finalize", "final_dump", "DONE"}
    /\ i < Len(matches_to_process)

\* C23: the loop is left with items remaining only by the answer "3" at a
\* batch pause, between two items; that step leaves the artifact as it is
\* and attempts nothing, and from there the run only goes on to the
\* summary (and, in update mode, the reorder) and ends DONE, without any
\* further attempt or restart.
C23_UserStop ==
    [][/\ (pc' = "finalize" /\ pc # "finalize"
              /\ i' < Len(matches_to_process'))
          => /\ pc = "pause"
             /\ is_interactive
             /\ wbuf = <<>>
             /\ match_info' = 0
             /\ file' = file
             /\ hist'.attempted = hist.attempted
             /\ hist'.saved = hist.saved
       /\ (Stopped /\ pc # "DONE" /\ pc' # pc)
          => /\ pc' \in {"final_dump", "DONE"}
             /\ summary' # <<>>
             /\ hist'.attempted = hist.attempted
             /\ global_driver_restarts' = global_driver_restarts
      ]_vars

C23_Witness ==
    /\ Stopped
    /\ pc = "DONE"
    /\ i = 1
    /\ successful_count = 1
    /\ file = ListFile(<<MakeRecord(matches_to_process[1])>>)
    /\ summary # <<>>

\* C24: a run in which every session acquisition yields a session and no
\* pause is offered ends DONE or ABORTED, and ABORTED only with
\* global_driver_restarts at its bound.
C24_EndsDoneOrAborted ==
    (pc \in Terminal /\ ~is_interactive /\ ~hist.no_session)
        => /\ pc \in {"DONE", "ABORTED"}
           /\ pc = "ABORTED"
                 => global_driver_restarts = MAX_RECONNECTION_ATTEMPTS

\* C25: when the container of the listing never shows, get_match_id_list
\* returns the empty list and the run returns at once: the session is
\* released, no item was attempted, the artifact is as it was and
\* global_driver_restarts is 0.
C25_DiscoveryFailure ==
    (pc # "listing" /\ ~page.container)
        => /\ matches_with_stage = <<>>
           /\ pc = "DONE"
           /\ ~driver
           /\ hist.released = 1 /\ hist.live = 0
           /\ hist.attempted = {}
           /\ file = hist.store0
           /\ global_driver_restarts = 0

C25_Witness ==
    /\ pc = "DONE"
    /\ ~page.container
    /\ \E k \in 1..Len(page.all_rows) : page.all_rows[k].has_id
    /\ matches_with_stage = <<>>
    /\ ~driver

\* C26: in a run that is not interactive no batch pause is ever offered,
\* and the for loop is left only with the list exhausted or by a
\* WebDriverException raised for the item in flight.
C26_NoPauseUnattended ==
    [][~is_interactive
          => /\ pc' # "pause"
             /\ (pc \in InLoop /\ pc' \notin InLoop)
                => \/ /\ pc = "loop" /\ pc' = "finalize"
                      /\ i >= Len(matches_to_process)
                   \/ /\ pc = "item" /\ pc' \in {"acquire", "ABORTED"}
                      /\ global_driver_restarts' = global_driver_restarts + 1
                      /\ hist'.last_fatal = match_info
      ]_vars

C26_Witness ==
    /\ ~is_interactive
    /\ pc = "item"
    /\ i > 0
    /\ i % MATCHES_PER_BATCH = 0
    /\ hist.looped

\* A positive multiple of the batch size.
BatchComplete(n) == n > 0 /\ n % MATCHES_PER_BATCH = 0

\* The items of the run that were attempted so far, and those of them
\* whose processing ended (saved or failed).
ItemsAttempted == Cardinality(hist.attempted)
ItemsProcessed == hist.saved + Cardinality(hist.failed_ids)

\* C27: in an interactive run the for loop offers the pause before taking
\* its next item exactly when the number of items dealt with so far in the
\* run is a positive multiple of MATCHES_PER_BATCH (never when neither the
\* attempted nor the processed items make a complete batch, always when
\* both do).
C27_PauseEveryBatch ==
    [][(is_interactive /\ pc = "loop" /\ pc' \in {"pause", "item"})
          => /\ pc' = "pause"
                  => (BatchComplete(ItemsAttempted)
                         \/ BatchComplete(ItemsProcessed))
             /\ (BatchComplete(ItemsAttempted) /\ BatchComplete(ItemsProcessed))
                  => pc' = "pause"
      ]_vars

C29_ErrorClassification ==
    [][pc = "item"
          => /\ hist'.fatal # hist.fatal
                => /\ hist'.fatal[match_info] = hist.fatal[match_info] + 1
                   /\ pc' \in {"acquire", "ABORTED"}
                   /\ ~driver'
                   /\ hist'.released = hist.released + 1
                   /\ global_driver_restarts' = global_driver_restarts + 1
                   /\ successful_count' = successful_count
                   /\ failed_count' = failed_count
                   /\ match_info \notin hist'.failed_ids \ hist.failed_ids
             /\ (hist'.fatal = hist.fatal /\ pc' # "save_dump")
                => /\ pc' = "loop"
                   /\ match_info \in hist'.failed_ids
                   /\ failed_count' = failed_count + 1
                   /\ successful_count' = successful_count
                   /\ i' = i + 1
                   /\ driver' /\ hist'.acquired = hist.acquired
                   /\ global_driver_restarts' = global_driver_restarts
                   /\ matches_to_process' = matches_to_process
      ]_vars

C29_Witness ==
    /\ pc = "acquire"
    /\ global_driver_restarts = 1
    /\ Len(matches_to_process) = 2
    /\ hist.failed_ids = {matches_to_process[1]}
    /\ hist.last_fatal = matches_to_process[2]
    /\ failed_count = 1
    /\ successful_count = 0

\* C30: a save_match_incremental that fails (json.dump raises, or the file
\* cannot be opened) returns False: nothing is raised to the loop or the
\* restart handler, failed_count grows by one and successful_count does
\* not, the artifact holds no Record of the item, and the loop goes on to
\* the next item in the same session.
C30_SaveFailureCounted ==
    [][((pc = "save_dump" /\ hist'.saved = hist.saved)
           \/ (pc = "item" /\ pc' = "loop"))
          => /\ pc' = "loop"
             /\ failed_count' = failed_count + 1
             /\ successful_count' = successful_count
             /\ match_info \in hist'.failed_ids
             /\ match_info \notin load_existing_match_ids(file')
             /\ i' = i + 1
             /\ driver' /\ hist'.acquired = hist.acquired
             /\ global_driver_restarts' = global_driver_restarts
             /\ matches_to_process' = matches_to_process
      ]_vars

C30_Witness ==
    /\ pc = "item"
    /\ i = 1
    /\ failed_count = 1
    /\ successful_count = 0
    /\ global_driver_restarts = 0
    /\ hist.store0 = Absent
    /\ file = Torn
    /\ match_info = matches_to_process[2]

\* C31: once a secondary pass (quarter statistics, match statistics) has
\* failed, the call still goes on to the save, the sub-field of the failed
\* pass is the empty dict, and when the save succeeds the Record with that
\* empty sub-field is the last of the artifact and the item is counted as
\* successful; only a failed save counts it as failed.
C31_SecondaryBestEffort ==
    hist.degraded # {}
        => /\ pc \in {"match_stats", "save", "loop"}
           /\ \A f \in hist.degraded : scraped[f] = EmptyDict
           /\ pc = "loop"
                 => IF hist.saved = 1
                    THEN /\ successful_count = 1 /\ failed_count = 0
                         /\ file.kind = "list"
                         /\ file.data[Len(file.data)] = scraped
                    ELSE /\ successful_count = 0 /\ failed_count = 1
                         /\ hist.any_failed

C31_Witness ==
    /\ pc = "loop"
    /\ hist.degraded = {"quarter_stats", "match_stats"}
    /\ successful_count = 1
    /\ file = ListFile(<<scraped>>)
    /\ scraped.quarter_stats = EmptyDict

\* C32: a run that ended through the summary reported it once, holds no
\* session, has in update mode left a rewritten artifact in the final
\* order, and the successful, failed and paused counts of the summary add up
\* to the number of items the run had to process after filtering (the
\* count logged as "Por procesar" at line 1155).
C32_Finalize ==
    (pc = "DONE" /\ summary # <<>>)
        => /\ Len(summary) = 1
           /\ ~driver /\ hist.live = 0
           /\ (update_mode /\ hist.returned = "True")
                 => /\ file.kind = "list"
                    /\ hist.order \in {"desc", "asc"}
                    /\ Ordered(file.data, hist.order)
           /\ summary[1].successful + summary[1].failed + summary[1].paused
                 = report[1].to_process

\* A WebDriverException reaches the handler of line 1276 in this step: one
\* raised for the item in flight, by the discovery, or by an acquisition
\* that gives up.
FatalReaches ==
    \/ hist'.fatal # hist.fatal
    \/ pc = "discover" /\ pc' \in {"acquire", "ABORTED"}
    \/ pc = "acquire" /\ pc' \in {"acquire", "ABORTED"} /\ attempt' = 0

\* A run starts in this step.
RunStarts == pc \in Terminal \cup {"INIT"}

\* C33: global_driver_restarts stays within 0..MAX_RECONNECTION_ATTEMPTS,
\* is 0 when a run starts, never decreases during a run, grows by exactly
\* one in a step in which a WebDriverException reaches the orchestrator and
\* in no other step, and a run acquires at most MAX_RECONNECTION_ATTEMPTS
\* sessions.
C33_RestartCounter ==
    [][/\ global_driver_restarts' \in 0..MAX_RECONNECTION_ATTEMPTS
       /\ hist'.acquired <= MAX_RECONNECTION_ATTEMPTS
       /\ RunStarts => global_driver_restarts' = 0
       /\ ~RunStarts
             => /\ global_driver_restarts' >= global_driver_restarts
                /\ global_driver_restarts' =
                      IF FatalReaches THEN global_driver_restarts + 1
                      ELSE global_driver_restarts
      ]_vars

C33_Witness ==
    /\ pc = "ABORTED"
    /\ global_driver_restarts = MAX_RECONNECTION_ATTEMPTS
    /\ hist.acquired = MAX_RECONNECTION_ATTEMPTS
    /\ FatalTotal = MAX_RECONNECTION_ATTEMPTS

\* The positions of the match rows that carry an id attribute.
IdRows(rows) ==
    {k \in 1..Len(rows) : rows[k].classes = "event__match" /\ rows[k].has_id}

\* C34: get_match_id_list returns one entry for every match row that has an
\* id attribute and none for any other row, in the order of the rows, and
\* the stage of an entry whose row has no text of its own is composed from
\* the text of the last block row in front of it (from nothing when there
\* is none, or it shows no text).
C34_DiscovererRows ==
    (pc \in {"filter", "DONE"} /\ page.container)
        => /\ Len(matches_with_stage) = Cardinality(IdRows(page.all_rows))
           /\ \A n \in 1..Len(matches_with_stage) :
                 LET k == matches_with_stage[n].id
                     own == strip(page.all_rows[k].text)
                 IN /\ k \in IdRows(page.all_rows)
                    /\ \A m \in 1..Len(matches_with_stage) :
                          n < m => k < matches_with_stage[m].id
                    /\ matches_with_stage[n].stage =
                          _compose_stage(
                              page.league_base,
                              IF own # None THEN own
                              ELSE HeaderBefore(page.all_rows, k),
                              page.playoffs_context_text)

C34_Witness ==
    /\ pc = "filter"
    /\ page.container
    /\ page.playoffs_context_text = None
    /\ Len(page.all_rows) = 4
    /\ page.all_rows[1].classes = "event__round"
    /\ page.all_rows[1].text = S_Final
    /\ page.all_rows[2].classes = "event__match"
    /\ ~page.all_rows[2].has_id
    /\ page.all_rows[3].classes = "event__title"
    /\ page.all_rows[3].text = S_SemiFinals
    /\ page.all_rows[4].classes = "event__match"
    /\ page.all_rows[4].text = None
    /\ Len(matches_with_stage) = 1
    /\ matches_with_stage[1].id = 4
    /\ matches_with_stage[1].stage = S_NBA \o <<" ", "-", " ">> \o strip(S_SemiFinals)

(* ------------------------------------ get_match_id_list, "show more" loop *)
\* Line 392.
show_more_selectors ==
    <<"a.event__more.event__more--static", "a.wclButtonLink">>

\* Variant: a round without a click does not end the loop.
AfterRound_NoBreak(clicked, rounds) ==
    IF rounds = MAX_SHOW_MORE_CLICKS THEN "wait_container" ELSE "show_more"

\* Lines 393 and 404-405: where control goes when a round of the loop is
\* over; rounds is the number of rounds made so far.
AfterRound(clicked, rounds) ==
    IF ~clicked \/ rounds = MAX_SHOW_MORE_CLICKS
    THEN "wait_container"
    ELSE "show_more"

\* The results page right after open_page_and_navigate (line 356): it holds
\* back page.more blocks of results, one shown per click; page.clicks lists
\* the clicks made, each with its round and its selector.
InitMore ==
    /\ file = Absent
    /\ pc = "show_more"
    /\ page \in [more : 0..MaxMore, clicks : {<<>>}]
    /\ config = ShippedConfig
    /\ scraped = NoData
    /\ update_mode = FALSE
    /\ is_interactive = FALSE
    /\ global_driver_restarts = 0
    /\ driver = TRUE
    /\ attempt = 1
    /\ bound = FALSE
    /\ matches_with_stage = <<>>
    /\ matches_to_process = <<>>
    /\ i = 0
    /\ successful_count = 0
    /\ failed_count = 0
    /\ match_info = 0
    /\ wbuf = <<>>
    /\ summary = <<>>
    /\ report = <<>>
    /\ hist = NewHist(file)

\* Lines 395-403, one pass of the inner loop in round i + 1 with the selector
\* at index attempt: the wait finds a clickable control, which is clicked
\* (397-401), or it times out (402-403), or the session fails, which neither
\* except clause catches.
ShowMore(outcome) ==
    /\ pc = "show_more"
    /\ i < MAX_SHOW_MORE_CLICKS
    /\ CASE outcome = "clickable" ->
              /\ page.more > 0
              /\ page' = [more |-> page.more - 1,
                          clicks |-> Append(page.clicks,
                                            [round |-> i + 1,
                                             selector |-> show_more_selectors[attempt]])]
              /\ i' = i + 1
              /\ attempt' = 1
              /\ pc' = AfterRound(TRUE, i + 1)
         [] outcome = "timeout" ->
              IF attempt < Len(show_more_selectors)
              THEN /\ attempt' = attempt + 1
                   /\ UNCHANGED <<page, i, pc>>
              ELSE /\ i' = i + 1
                   /\ attempt' = 1
                   /\ pc' = AfterRound(FALSE, i + 1)
                   /\ UNCHANGED page
         [] outcome = "wde" ->
              /\ pc' = "raised"
              /\ UNCHANGED <<page, i, attempt>>
    /\ UNCHANGED <<file, config, scraped,
                   update_mode, is_interactive,
                   global_driver_restarts, driver, bound,
                   matches_with_stage, matches_to_process, successful_count,
                   failed_count, match_info, wbuf, summary, report, hist>>

NextMore == \E outcome \in {"clickable", "timeout", "wde"} : ShowMore(outcome)

\* The "show more" loop of one call of get_match_id_list.
SpecMore == InitMore /\ [][NextMore]_vars

\* C35: the loop clicks at most MAX_SHOW_MORE_CLICKS times, the n-th click
\* falls in the n-th round (one click per round at most, and none in any
\* round after a round without a click), and the loop is over as soon as a
\* round went by without a click.
C35_BoundedExpansion ==
    /\ Len(page.clicks) <= MAX_SHOW_MORE_CLICKS
    /\ \A n \in 1..Len(page.clicks) : page.clicks[n].round = n
    /\ i <= MAX_SHOW_MORE_CLICKS
    /\ i > Len(page.clicks) => (i = Len(page.clicks) + 1 /\ pc = "wait_container")

C35_Witness ==
    /\ pc = "wait_container"
    /\ page.more > 0
    /\ Len(page.clicks) = 2
    /\ i = 3
    /\ page.clicks[1].selector # page.clicks[2].selector

\* C36: when an item is about to be attempted and the attempt before it in
\* the run returned True or False, the loop has slept (line 1212) since that
\* attempt, with or without batch pauses; after an attempt that raised the
\* session-fatal error the sleep in between is the reconnection delay.
C36_PacingBetweenItems ==
    (pc = "item" /\ hist.attempted # {})
        => hist.delay = IF hist.resumed THEN "pace" ELSE "reconnect"

C36_Witness ==
    /\ pc = "item"
    /\ ~use_batch_pause
    /\ hist.any_failed
    /\ hist.saved = 0
    /\ hist.resumed
    /\ hist.delay = "pace"

RECURSIVE SumAttempts(_)
SumAttempts(n) == IF n = 0 THEN 0 ELSE hist.attempts[n] + SumAttempts(n - 1)

\* C37: the positions of the filtered list handed to
\* scrape_match_with_error_handling in one session strictly increase (no
\* item twice), no id is attempted more than MAX_RECONNECTION_ATTEMPTS
\* times in a run, and the attempts of a run number at most
\* MAX_RECONNECTION_ATTEMPTS times the length of the discovered list.
C37_AttemptsBounded ==
    /\ \A m, n \in 1..Len(hist.handed) :
          m < n => hist.handed[m] < hist.handed[n]
    /\ \A n \in 1..Len(hist.handed) : hist.handed[n] \in 1..Len(matches_to_process)
    /\ \A id \in MatchIds : hist.attempts[id] <= MAX_RECONNECTION_ATTEMPTS
    /\ SumAttempts(MaxDisc) <= MAX_RECONNECTION_ATTEMPTS * Len(matches_with_stage)

C37_Witness ==
    /\ pc = "ABORTED"
    /\ Len(matches_with_stage) = MaxDisc
    /\ Len(hist.handed) = MaxDisc
    /\ \A id \in MatchIds : hist.attempts[id] = MAX_RECONNECTION_ATTEMPTS
    /\ SumAttempts(MaxDisc) = MAX_RECONNECTION_ATTEMPTS * MaxDisc

\* The discovery of the run raised the session-fatal error: get_match_id_list
\* was called and matches_with_stage was never assigned.
DiscoveryFailed ==
    hist.discoveries = 1 /\ ~bound /\ global_driver_restarts >= 1

\* C38: a session-fatal error in the discovery of the first session sets
\* global_driver_restarts to 1; from then on the run calls get_match_id_list
\* no more, attempts no item and leaves the artifact as it is, and a
\* session acquired after it, the second of the run, is released at once,
\* which ends the run.
C38_DiscoveryFatal ==
    [][/\ (pc = "discover" /\ pc' \in {"acquire", "ABORTED"})
              => /\ global_driver_restarts = 0
                 /\ global_driver_restarts' = 1
                 /\ pc' = "acquire"
       /\ (DiscoveryFailed /\ ~RunStarts)
              => /\ file' = file
                 /\ hist'.discoveries = 1
                 /\ hist'.attempted = {}
                 /\ pc' \in {"acquire", "filter", "ABORTED", "UNEXPECTED"}
                 /\ pc = "filter" => /\ pc' = "UNEXPECTED"
                                     /\ hist'.acquired = 2
                                     /\ hist'.released = 2
                                     /\ hist'.live = 0
                                     /\ ~driver'
      ]_vars

C38_Witness ==
    /\ pc = "UNEXPECTED"
    /\ DiscoveryFailed
    /\ global_driver_restarts = 1
    /\ hist.acquired = 2
    /\ hist.released = 2
    /\ hist.attempted = {}
    /\ hist.saved = 0
    /\ file = hist.store0
    /\ summary = <<>>

(* ------------------------------------- a run on an artifact that is no list *)
\* The state when the while loop of line 1106 is entered by a run whose
\* artifact exists and holds malformed JSON or a JSON value that is no
\* list: no reorder took place (reorder_json_file returns False on it).
InitCorrupt ==
    /\ file \in {Torn, NonList}
    /\ pc = "acquire"
    /\ update_mode \in BOOLEAN
    /\ is_interactive \in BOOLEAN
    /\ global_driver_restarts = 0
    /\ driver = FALSE
    /\ attempt = 0
    /\ bound = FALSE
    /\ matches_with_stage = <<>>
    /\ matches_to_process = <<>>
    /\ i = 0
    /\ successful_count = 0
    /\ failed_count = 0
    /\ match_info = 0
    /\ wbuf = <<>>
    /\ summary = <<>>
    /\ report = <<>>
    /\ page = NoPage
    /\ config = ShippedConfig
    /\ scraped = NoData
    /\ hist = NewHist(file)

NextCorrupt ==
    \/ \E outcome \in {"ok", "install", "chrome", "script"} : DriverAttempt(outcome)
    \/ \E listing \in Listings, lim \in Limits : Discover(listing, lim)
    \/ DiscoverFatal
    \/ Filter
    \/ LoopNext
    \/ \E choice \in {"1", "2", "3", "eof"} : BatchPause(choice)
    \/ \E outcome \in {"ok", "transient", "fatal", "open_fail"} : Item(outcome)
    \/ \E ok \in BOOLEAN : SaveDump(ok)
    \/ \E order \in {"None", "desc", "asc"} : Finalize(order)
    \/ \E ok \in BOOLEAN : FinalDump(ok)

\* One run of scrape_league_with_incremental_save on such an artifact.
SpecCorrupt == InitCorrupt /\ [][NextCorrupt]_vars

\* The artifact exists and is no list of Records.
NoList(f) == f.kind \in {"torn", "nonlist"}

\* C39: on an artifact that holds malformed JSON or a non-list value the
\* load gives the empty set and the filter keeps every discovered item, and
\* a save that began on such an artifact and succeeds returns True (the item
\* is counted successful) and leaves a list holding the new Record alone.
C39_CorruptArtifact ==
    [][/\ (pc = "filter" /\ bound /\ NoList(file))
              => /\ hist'.existing = {}
                 /\ matches_to_process' = matches_with_stage
       /\ (pc = "save_dump" /\ NoList(hist.before) /\ file'.kind = "list")
              => /\ file' = ListFile(<<MakeRecord(match_info)>>)
                 /\ successful_count' = successful_count + 1
                 /\ failed_count' = failed_count
                 /\ hist'.saved = hist.saved + 1
      ]_vars

C39_Witness ==
    /\ pc = "loop"
    /\ hist.store0 = NonList
    /\ hist.existing = {}
    /\ Len(matches_to_process) = MaxDisc
    /\ hist.saved = 1
    /\ successful_count = 1
    /\ file = ListFile(<<MakeRecord(matches_to_process[1])>>)

\* Neither 'date' nor 'scraped_at' of the Record parses.
Undated(r) == r.date = DatetimeMin /\ r.scraped_at = DatetimeMin

\* The Records of d whose sort key is key, in the order they have in d.
WithKey(d, key) == SelectSeq(d, LAMBDA r : _parse_match_datetime(r) = key)

\* C40: after reorder_json_file returned True, a Record of which neither
\* date parses stands behind every Record that has a date that parses when
\* the order is 'desc' and in front of them when it is 'asc', and the Records
\* of one sort key stand in the order they had before the call.
C40_FallbackAndStability ==
    (pc = "reordered" /\ hist.returned = "True")
        => /\ \A a, b \in 1..Len(file.data) :
                 (Undated(file.data[a]) /\ ~Undated(file.data[b]))
                     => IF hist.order = "desc" THEN b < a ELSE a < b
           /\ \A r \in SortRecords :
                 Undated(r) <=> _parse_match_datetime(r) = DatetimeMin
           /\ \A key \in 0..(MaxDisc + 1) :
                 WithKey(file.data, key) = WithKey(hist.store0.data, key)

C40_Witness ==
    /\ pc = "reordered"
    /\ hist.returned = "True"
    /\ hist.order = "desc"
    /\ Len(file.data) = 3
    /\ Undated(hist.store0.data[1])
    /\ ~Undated(hist.store0.data[2])
    /\ Undated(hist.store0.data[3])
    /\ hist.store0.data[1].match_id # hist.store0.data[3].match_id
    /\ file.data = <<hist.store0.data[2], hist.store0.data[1], hist.store0.data[3]>>

====
